---- MODULE Spec2Model ----
(***************************************************************************)
(* Model of the concurrency-bounded UDP query server of DomainLens         *)
(* (src/src/dns/server.rs): DnsServerBuilder::build, DnsServerImpl::start, *)
(* DnsServerImpl::shutdown, the receive loop, the spawned query-processing *)
(* units and StaticAHandler::handle.                                       *)
(*                                                                         *)
(* Wire format abstraction: a datagram is a sequence of small numbers      *)
(*   << id, qdcount, name_1, qtype_1, ..., name_qd, qtype_qd >>            *)
(* (the header is cut down to the two fields the code reads).  A response  *)
(* is encoded as                                                           *)
(*   << id, rcode, qdcount, ancount, questions..., answers... >>.          *)
(***************************************************************************)
EXTENDS Integers, Sequences, FiniteSets, TLC

\* ---- bounds of the model ------------------------------------------------
max_concurrency == 1      \* DnsConfig.max_concurrency (512 by default)
udp_buf_size == 4         \* DnsConfig.udp_buf_size (2048 by default)
MaxDatagrams == 2         \* datagrams that arrive in one behaviour
MaxCalls == 3             \* start()/shutdown() calls in one behaviour
MaxRecvErrors == 1        \* failed receives that are counted
MaxQuestions == 2         \* questions of a request given to the handler alone
MaxDict == 2              \* strings of a dictionary
MaxKeyLen == 2            \* bytes of a dictionary string

\* ---- program constants --------------------------------------------------
TypeA == 1                \* RecordType::A
AnswerTtl == 60           \* TTL of the static answer
LocalHost == 127          \* stands for Ipv4Addr::new(127, 0, 0, 1)

\* The header fields of the wire abstraction.
Header == << "id", "qdcount" >>
HeaderLen == Len(Header)

\* Datagrams the environment sends, with their senders: one shorter than a
\* header, a header without question, an A question.
Datagrams ==
    { [ peer |-> "p1", bytes |-> <<7>> ],
      [ peer |-> "p1", bytes |-> <<7, 0>> ],
      [ peer |-> "p2", bytes |-> <<8, 1, 5, 1>> ] }

VARIABLES
    running,     \* DnsServerImpl.running (AtomicBool)
    shutdown,    \* DnsServerImpl.shutdown (CancellationToken): TRUE once cancelled
    semaphore,   \* DnsServerImpl.semaphore: permits available
    socket,      \* DnsServerImpl.socket: datagrams received by the OS, not yet read
    spawning,    \* start() calls that have swapped `running` and not yet spawned
    cancelling,  \* shutdown() calls that have stored `running` and not yet cancelled
    calls,       \* start()/shutdown() calls made so far
    loops,       \* the receive-loop tasks spawned by start(), in spawn order
    units,       \* the spawned query-processing units that have not finished
    finished,    \* datagram id -> exit path of its unit, for the finished units
    sent,        \* datagram id -> the datagrams sent back for it: <<[peer, bytes]>>
    arrived,     \* datagram id -> [peer, bytes] for the datagrams that arrived
    socket_closed, \* the socket was closed under the server: every recv_from fails
    recv_errors, \* Err results recv_from has returned (counted up to MaxRecvErrors)
    request,     \* StaticAHandler alone: the bytes of a request
    response,    \* StaticAHandler alone: what handle returned for `request`
    prefix_dict, \* DomainRule alone: the dictionary given to DomainRule::new
    prefix_rule, \* DomainRule alone: the index DomainRule::new built
    searched     \* DomainRule alone: the last search_domain call and its result

\* The state of the query server.
server_vars == << running, shutdown, semaphore, socket, spawning, cancelling,
                  calls, loops, units, finished, sent, arrived >>

\* The state of the handler and of the domain index when exercised alone.
pure_vars == << request, response, prefix_dict, prefix_rule, searched >>

\* What an operation of the server running on a sound socket leaves alone.
rest == << socket_closed, recv_errors, pure_vars >>

vars == << running, shutdown, semaphore, socket, spawning, cancelling, calls,
           loops, units, finished, sent, arrived, socket_closed, recv_errors,
           pure_vars >>

Ids == 1..MaxDatagrams

\* ---- pure functions -----------------------------------------------------

\* The first n elements of s (all of s when it is shorter).
Take(s, n) == SubSeq(s, 1, IF Len(s) < n THEN Len(s) ELSE n)

\* socket.recv_from(&mut buf): the datagram is written over the start of buf,
\* cut to the buffer's size; the rest of buf keeps its old content.
RecvInto(buf, bytes) ==
    LET len == IF Len(bytes) < Len(buf) THEN Len(bytes) ELSE Len(buf)
    IN [ len |-> len,
         buf |-> [ i \in 1..Len(buf) |-> IF i <= len THEN bytes[i] ELSE buf[i] ] ]

\* Message::from_vec(&payload)
from_vec(payload) ==
    IF Len(payload) < HeaderLen
    THEN [ ok |-> FALSE ]
    ELSE LET qd == payload[2]
         IN IF Len(payload) < HeaderLen + 2 * qd
            THEN [ ok |-> FALSE ]
            ELSE [ ok |-> TRUE,
                   id |-> payload[1],
                   queries |-> [ i \in 1..qd |->
                                   [ name  |-> payload[HeaderLen + 2 * i - 1],
                                     qtype |-> payload[HeaderLen + 2 * i] ] ] ]

\* A name of the wire abstraction is one number: it stands for a name whose
\* label holds that byte.  The bytes Label::from_ascii accepts in a label are
\* letters, digits, '-' and '_'; the bytes below stand for any other byte (a
\* space, say), which a label read from the wire may hold.
OtherLabelBytes == { 6 }

\* Name::to_ascii(): the presentation form, one character per label byte; a
\* byte that is not plain is written escaped.
to_ascii(name) ==
    << [ escaped |-> name \in OtherLabelBytes, byte |-> name ] >>

\* Name::from_ascii(s): unescapes each character, then checks the label with
\* Label::from_ascii.
from_ascii(s) ==
    LET label == [ k \in 1..Len(s) |-> s[k].byte ]
    IN IF \E k \in 1..Len(label) : label[k] \in OtherLabelBytes
       THEN [ ok |-> FALSE ]
       ELSE [ ok |-> TRUE, name |-> label[1] ]

\* StaticAHandler::handle(req, peer): Some(resp) or None
handle(req) ==
    IF Len(req.queries) = 0
    THEN [ some |-> FALSE ]                         \* req.queries().first()?
    ELSE LET q == req.queries[1]
             name == from_ascii(to_ascii(q.name))
         IN IF q.qtype = TypeA /\ ~name.ok
            THEN [ some |-> FALSE ]                  \* Name::from_ascii(..).ok()?
            ELSE [ some |-> TRUE,
                   id |-> req.id,
                   rcode |-> "NoError",
                   queries |-> << q >>,
                   answers |-> IF q.qtype = TypeA
                               THEN << [ name |-> name.name, rtype |-> TypeA,
                                         ttl |-> AnswerTtl, addr |-> LocalHost ] >>
                               ELSE << >> ]

RECURSIVE FlatQueries(_)
FlatQueries(qs) ==
    IF qs = << >> THEN << >>
    ELSE << qs[1].name, qs[1].qtype >> \o FlatQueries(Tail(qs))

RECURSIVE FlatAnswers(_)
FlatAnswers(as) ==
    IF as = << >> THEN << >>
    ELSE << as[1].name, as[1].rtype, as[1].ttl, as[1].addr >> \o FlatAnswers(Tail(as))

RcodeNum(rcode) == IF rcode = "NoError" THEN 0 ELSE 1

\* Message::to_vec() of a response
to_vec(resp) ==
    << resp.id, RcodeNum(resp.rcode), Len(resp.queries), Len(resp.answers) >>
        \o FlatQueries(resp.queries) \o FlatAnswers(resp.answers)

\* ---- construction -------------------------------------------------------

\* DnsServerBuilder::build
ServerInit ==
    /\ running = FALSE
    /\ shutdown = FALSE
    /\ semaphore = max_concurrency
    /\ socket = << >>
    /\ spawning = 0
    /\ cancelling = 0
    /\ calls = 0
    /\ loops = << >>
    /\ units = {}
    /\ finished = << >>
    /\ sent = [ i \in Ids |-> << >> ]
    /\ arrived = << >>
    /\ socket_closed = FALSE
    /\ recv_errors = 0

\* The handler exercised alone, not yet called.
HandlerIdle == response = [ state |-> "idle" ]

\* The domain index exercised alone, not yet built.
RuleIdle ==
    /\ prefix_rule = [ state |-> "unbuilt" ]
    /\ searched = [ state |-> "idle" ]

\* The server as built; handler and domain index are not exercised alone.
Init ==
    /\ ServerInit
    /\ request = << >> /\ HandlerIdle
    /\ prefix_dict = << >> /\ RuleIdle

\* A receive loop at select!: no datagram in hand.
NoPending == [ pc |-> "select", payload |-> << >>, peer |-> "none", id |-> 0 ]

\* A receive loop that has left its loop.
Exited == [ pc |-> "exited", payload |-> << >>, peer |-> "none", id |-> 0,
            buf |-> << >> ]

\* ---- environment --------------------------------------------------------

\* A peer sends a datagram to the bound socket.
Arrive(peer, bytes) ==
    /\ Len(arrived) < MaxDatagrams
    /\ arrived' = Append(arrived, [ peer |-> peer, bytes |-> bytes ])
    /\ socket' = Append(socket, [ id |-> Len(arrived) + 1, peer |-> peer, bytes |-> bytes ])
    /\ UNCHANGED << running, shutdown, semaphore, spawning, cancelling, calls,
                    loops, units, finished, sent >>
    /\ UNCHANGED rest

\* The socket is closed under the server: from now on every receive fails.
SocketClose ==
    /\ ~socket_closed
    /\ socket_closed' = TRUE
    /\ UNCHANGED << server_vars, recv_errors, pure_vars >>

\* ---- start() and shutdown() ----------------------------------------------

\* Mutant of StartSwap: the early return on an already set flag is missing.
StartSwap_noEarlyReturn ==
    /\ calls < MaxCalls
    /\ calls' = calls + 1
    /\ running' = TRUE
    /\ spawning' = spawning + 1
    /\ UNCHANGED << shutdown, semaphore, socket, cancelling, loops, units,
                    finished, sent, arrived >>
    /\ UNCHANGED rest

\* start(), first half: running.swap(true) and the early return
StartSwap ==
    /\ calls < MaxCalls
    /\ calls' = calls + 1
    /\ running' = TRUE
    /\ spawning' = IF running THEN spawning ELSE spawning + 1
    /\ UNCHANGED << shutdown, semaphore, socket, cancelling, loops, units,
                    finished, sent, arrived >>
    /\ UNCHANGED rest

\* start(), second half: tokio::spawn of the receive loop
StartSpawn ==
    /\ spawning > 0
    /\ spawning' = spawning - 1
    /\ loops' = Append(loops, NoPending @@ [ buf |-> [ i \in 1..udp_buf_size |-> 0 ] ])
    /\ UNCHANGED << running, shutdown, semaphore, socket, cancelling, calls,
                    units, finished, sent, arrived >>
    /\ UNCHANGED rest

\* shutdown(), first half: running.store(false)
ShutdownStore ==
    /\ calls < MaxCalls
    /\ calls' = calls + 1
    /\ running' = FALSE
    /\ cancelling' = cancelling + 1
    /\ UNCHANGED << shutdown, semaphore, socket, spawning, loops, units,
                    finished, sent, arrived >>
    /\ UNCHANGED rest

\* Mutant of ShutdownCancel: a hard cancel, the units in flight are aborted.
ShutdownCancel_abort ==
    /\ cancelling > 0
    /\ cancelling' = cancelling - 1
    /\ shutdown' = TRUE
    /\ units' = {}
    /\ semaphore' = semaphore + Cardinality(units)
    /\ UNCHANGED << running, socket, spawning, calls, loops, finished, sent, arrived >>
    /\ UNCHANGED rest

\* shutdown(), second half: shutdown.cancel()
ShutdownCancel ==
    /\ cancelling > 0
    /\ cancelling' = cancelling - 1
    /\ shutdown' = TRUE
    /\ UNCHANGED << running, semaphore, socket, spawning, calls, loops, units,
                    finished, sent, arrived >>
    /\ UNCHANGED rest

\* ---- the receive loop -----------------------------------------------------

\* Mutant of LoopBreak: the loop polls the running flag, not the token.
LoopBreak_pollsFlag(l) ==
    /\ l \in 1..Len(loops)
    /\ loops[l].pc = "select"
    /\ ~running
    /\ loops' = [ loops EXCEPT ![l] = Exited ]
    /\ UNCHANGED << running, shutdown, semaphore, socket, spawning, cancelling,
                    calls, units, finished, sent, arrived >>
    /\ UNCHANGED rest

\* select!: the shutdown.cancelled() branch
LoopBreak(l) ==
    /\ l \in 1..Len(loops)
    /\ loops[l].pc = "select"
    /\ shutdown
    /\ loops' = [ loops EXCEPT ![l] = Exited ]      \* the task ends, buf is freed
    /\ UNCHANGED << running, shutdown, semaphore, socket, spawning, cancelling,
                    calls, units, finished, sent, arrived >>
    /\ UNCHANGED rest

\* Mutant of LoopRecv: the units are given the receive buffer itself, not a
\* copy, so a receive writes over the bytes a unit has yet to decode.
LoopRecv_sharedBuf(l) ==
    /\ l \in 1..Len(loops)
    /\ loops[l].pc = "select"
    /\ ~socket_closed
    /\ socket # << >>
    /\ LET d == Head(socket)
           r == RecvInto(loops[l].buf, d.bytes)
       IN /\ loops' = [ loops EXCEPT ![l] =
                          [ pc |-> "acquire",
                            buf |-> r.buf,
                            payload |-> Take(r.buf, r.len),
                            peer |-> d.peer,
                            id |-> d.id ] ]
          /\ units' = { IF u.pc = "spawned"
                        THEN [ u EXCEPT !.payload = Take(r.buf, Len(u.payload)) ]
                        ELSE u : u \in units }
    /\ socket' = Tail(socket)
    /\ UNCHANGED << running, shutdown, semaphore, spawning, cancelling, calls,
                    finished, sent, arrived >>
    /\ UNCHANGED rest

\* select!: the socket.recv_from(&mut buf) branch, up to the await of the permit
LoopRecv(l) ==
    /\ l \in 1..Len(loops)
    /\ loops[l].pc = "select"
    /\ ~socket_closed
    /\ socket # << >>
    /\ LET d == Head(socket)
           r == RecvInto(loops[l].buf, d.bytes)
       IN loops' = [ loops EXCEPT ![l] =
                       [ pc |-> "acquire",
                         buf |-> r.buf,
                         payload |-> Take(r.buf, r.len),      \* buf[..len].to_vec()
                         peer |-> d.peer,
                         id |-> d.id ] ]
    /\ socket' = Tail(socket)
    /\ UNCHANGED << running, shutdown, semaphore, spawning, cancelling, calls,
                    units, finished, sent, arrived >>
    /\ UNCHANGED rest

\* Mutant of LoopRecvErr: the error is propagated out of the loop, as the `?`
\* of DnsServer::run (dns/mod.rs) does.
LoopRecvErr_propagates(l) ==
    /\ l \in 1..Len(loops)
    /\ loops[l].pc = "select"
    /\ socket_closed \/ recv_errors < MaxRecvErrors
    /\ recv_errors' = IF recv_errors < MaxRecvErrors THEN recv_errors + 1
                                                     ELSE recv_errors
    /\ loops' = [ loops EXCEPT ![l] = Exited ]
    /\ UNCHANGED << running, shutdown, semaphore, socket, spawning, cancelling,
                    calls, units, finished, sent, arrived >>
    /\ UNCHANGED << socket_closed, pure_vars >>

\* select!: socket.recv_from(&mut buf) returns Err: `continue`.  No datagram
\* is taken from the socket and the loop is at select! again.
LoopRecvErr(l) ==
    /\ l \in 1..Len(loops)
    /\ loops[l].pc = "select"
    /\ socket_closed \/ recv_errors < MaxRecvErrors
    /\ recv_errors' = IF recv_errors < MaxRecvErrors THEN recv_errors + 1
                                                     ELSE recv_errors
    /\ UNCHANGED << running, shutdown, semaphore, socket, spawning, cancelling,
                    calls, loops, units, finished, sent, arrived >>
    /\ UNCHANGED << socket_closed, pure_vars >>

\* Mutant of LoopAdmit: the unit is spawned without waiting for a permit.
LoopAdmit_noGate(l) ==
    /\ l \in 1..Len(loops)
    /\ loops[l].pc = "acquire"
    /\ semaphore' = semaphore - 1
    /\ units' = units \cup { [ id |-> loops[l].id, peer |-> loops[l].peer,
                               payload |-> loops[l].payload, pc |-> "spawned",
                               out |-> << >> ] }
    /\ loops' = [ loops EXCEPT ![l] = NoPending @@ [ buf |-> loops[l].buf ] ]
    /\ UNCHANGED << running, shutdown, socket, spawning, cancelling, calls,
                    finished, sent, arrived >>
    /\ UNCHANGED rest

\* sem.acquire_owned().await completes and the unit is spawned with the permit
LoopAdmit(l) ==
    /\ l \in 1..Len(loops)
    /\ loops[l].pc = "acquire"
    /\ semaphore > 0
    /\ semaphore' = semaphore - 1
    /\ units' = units \cup { [ id |-> loops[l].id, peer |-> loops[l].peer,
                               payload |-> loops[l].payload, pc |-> "spawned",
                               out |-> << >> ] }
    /\ loops' = [ loops EXCEPT ![l] = NoPending @@ [ buf |-> loops[l].buf ] ]
    /\ UNCHANGED << running, shutdown, socket, spawning, cancelling, calls,
                    finished, sent, arrived >>
    /\ UNCHANGED rest

\* ---- a query-processing unit ------------------------------------------------

\* Mutant of Finish: the early return on a decode failure keeps the permit.
Finish_leakOnDecode(u, path) ==
    /\ units' = units \ {u}
    /\ semaphore' = IF path = "decode_failed" THEN semaphore ELSE semaphore + 1
    /\ finished' = finished @@ (u.id :> path)

\* The unit ends: `_permit` is dropped.
Finish(u, path) ==
    /\ units' = units \ {u}
    /\ semaphore' = semaphore + 1
    /\ finished' = finished @@ (u.id :> path)

\* Mutant of UnitRun: a request the handler declines is answered with a
\* format error instead of being dropped.
UnitRun_answersDeclined(u) ==
    /\ u \in units
    /\ u.pc = "spawned"
    /\ LET req == from_vec(u.payload)
       IN IF ~req.ok
          THEN Finish(u, "decode_failed")
          ELSE LET resp == handle(req)
                   out == IF resp.some THEN to_vec(resp) ELSE << req.id, 1, 0, 0 >>
               IN \E encoded \in BOOLEAN :
                     IF encoded
                     THEN /\ units' = (units \ {u}) \cup
                                { [ u EXCEPT !.pc = "send", !.out = out ] }
                          /\ UNCHANGED << semaphore, finished >>
                     ELSE Finish(u, "encode_failed")
    /\ UNCHANGED << running, shutdown, socket, spawning, cancelling, calls,
                    loops, sent, arrived >>
    /\ UNCHANGED rest

\* The unit's body up to the await of the send: Message::from_vec(&payload),
\* handler.handle(req, peer).await, resp.to_vec().  These steps touch nothing
\* but the unit's own data, so they are taken as one.
UnitRun(u) ==
    /\ u \in units
    /\ u.pc = "spawned"
    /\ LET req == from_vec(u.payload)
       IN IF ~req.ok
          THEN Finish(u, "decode_failed")
          ELSE LET resp == handle(req)
               IN IF ~resp.some
                  THEN Finish(u, "no_response")
                  ELSE \E encoded \in BOOLEAN :
                          IF encoded
                          THEN /\ units' = (units \ {u}) \cup
                                     { [ u EXCEPT !.pc = "send", !.out = to_vec(resp) ] }
                               /\ UNCHANGED << semaphore, finished >>
                          ELSE Finish(u, "encode_failed")
    /\ UNCHANGED << running, shutdown, socket, spawning, cancelling, calls,
                    loops, sent, arrived >>
    /\ UNCHANGED rest

\* Mutant of UnitSend: the response goes to the peer of the datagram received
\* last, not to the peer the unit was spawned with.
UnitSend_lastPeer(u) ==
    /\ u \in units
    /\ u.pc = "send"
    /\ \E ok \in BOOLEAN :
          IF ok
          THEN /\ sent' = [ sent EXCEPT ![u.id] =
                              Append(@, [ peer |-> arrived[Len(arrived)].peer,
                                          bytes |-> u.out ]) ]
               /\ Finish(u, "sent")
          ELSE /\ UNCHANGED sent
               /\ Finish(u, "send_failed")
    /\ UNCHANGED << running, shutdown, socket, spawning, cancelling, calls,
                    loops, arrived >>
    /\ UNCHANGED rest

\* socket.send_to(&bytes, peer).await
UnitSend(u) ==
    /\ u \in units
    /\ u.pc = "send"
    /\ \E ok \in BOOLEAN :
          IF ok
          THEN /\ sent' = [ sent EXCEPT ![u.id] =
                              Append(@, [ peer |-> u.peer, bytes |-> u.out ]) ]
               /\ Finish(u, "sent")
          ELSE /\ UNCHANGED sent
               /\ Finish(u, "send_failed")
    /\ UNCHANGED << running, shutdown, socket, spawning, cancelling, calls,
                    loops, arrived >>
    /\ UNCHANGED rest

\* ---- specification ----------------------------------------------------------

Next ==
    \/ \E d \in Datagrams : Arrive(d.peer, d.bytes)
    \/ StartSwap
    \/ StartSpawn
    \/ ShutdownStore
    \/ ShutdownCancel
    \/ \E l \in 1..MaxCalls : LoopBreak(l)
    \/ \E l \in 1..MaxCalls : LoopRecv(l)
    \/ \E l \in 1..MaxCalls : LoopAdmit(l)
    \/ \E u \in units : UnitRun(u)
    \/ \E u \in units : UnitSend(u)

Spec == Init /\ [][Next]_vars

\* Scheduling the code relies on: a call that has begun runs on; the runtime
\* polls every spawned task that can make progress; a permit that stays
\* available is handed to a waiting acquire; select! polls its ready branches
\* in random order, so a cancelled token that is ready again and again is
\* eventually the branch taken.  No fairness is asked of the environment
\* (arrivals, calls of start() and shutdown()) nor of the receive branch.
FairSpec ==
    /\ Spec
    /\ WF_vars(StartSpawn)
    /\ WF_vars(ShutdownCancel)
    /\ WF_vars(\E l \in 1..MaxCalls : LoopAdmit(l))
    /\ SF_vars(\E l \in 1..MaxCalls : LoopBreak(l))
    /\ WF_vars(\E u \in units : UnitRun(u) \/ UnitSend(u))

\* The server with receives that may fail now and then.
TransportNext ==
    \/ Next
    \/ \E l \in 1..MaxCalls : LoopRecvErr(l)

TransportSpec == Init /\ [][TransportNext]_vars

\* The server on a socket that may be closed under it, scheduled as in
\* FairSpec; a loop whose receive fails at once is polled again.
ClosedSocketNext ==
    \/ TransportNext
    \/ SocketClose

ClosedSocketSpec ==
    /\ Init /\ [][ClosedSocketNext]_vars
    /\ WF_vars(StartSpawn)
    /\ WF_vars(ShutdownCancel)
    /\ WF_vars(\E l \in 1..MaxCalls : LoopAdmit(l))
    /\ SF_vars(\E l \in 1..MaxCalls : LoopBreak(l))
    /\ WF_vars(\E l \in 1..MaxCalls : LoopRecvErr(l))
    /\ WF_vars(\E u \in units : UnitRun(u) \/ UnitSend(u))

\* ---- the handler alone ----------------------------------------------------

\* The bytes requests are made of: question counts, types (TypeA and another),
\* names with plain labels and names with another byte in a label.
RequestBytes == { 0, 1, 2 } \cup OtherLabelBytes

\* Every byte string up to the length of a request with MaxQuestions questions.
Requests ==
    UNION { [ 1..n -> RequestBytes ] : n \in 0..(HeaderLen + 2 * MaxQuestions) }

HandlerInit ==
    /\ ServerInit
    /\ request \in Requests /\ HandlerIdle
    /\ prefix_dict = << >> /\ RuleIdle

\* The unit's decode and the call of the handler, on `request`.
HandleRequest ==
    /\ response.state = "idle"
    /\ LET req == from_vec(request)
       IN response' = [ state |-> "done",
                        out |-> IF req.ok THEN handle(req) ELSE [ some |-> FALSE ] ]
    /\ UNCHANGED << server_vars, socket_closed, recv_errors, request,
                    prefix_dict, prefix_rule, searched >>

HandlerSpec == HandlerInit /\ [][HandleRequest]_vars

\* ---- the domain index alone -----------------------------------------------

\* The bytes domain strings are made of.
KeyBytes == { "a", "b" }

Strings(n) == UNION { [ 1..k -> KeyBytes ] : k \in 0..n }

\* Vec<String> given to DomainRule::new
Dictionaries == UNION { [ 1..n -> Strings(MaxKeyLen) ] : n \in 0..MaxDict }

\* &str given to search_domain: long enough to extend the longest key
Domains == Strings(MaxKeyLen + 1)

\* Cedar::new(): a trie of the root alone.  A node is the byte string that
\* leads to it; `value` holds the value of every node that ends a key.
CedarNew == [ nodes |-> { << >> }, value |-> << >> ]

\* Cedar::update(key, value): creates the nodes on the key's path and stores
\* the value at its end, over a value that is already there.
update(cedar, key, value) ==
    [ nodes |-> cedar.nodes \cup { Take(key, k) : k \in 0..Len(key) },
      value |-> [ s \in DOMAIN cedar.value \cup { key } |->
                    IF s = key THEN value ELSE cedar.value[s] ] ]

\* Cedar::build(&key_values): update for each pair, in order; update of a
\* zero-length key panics.
RECURSIVE build(_, _)
build(cedar, key_values) ==
    IF key_values = << >>
    THEN [ ok |-> TRUE, cedar |-> cedar ]
    ELSE IF Len(Head(key_values).s) = 0
         THEN [ ok |-> FALSE ]
         ELSE build(update(cedar, Head(key_values).s, Head(key_values).k),
                    Tail(key_values))

\* Cedar::exact_match_search(key): follows the key byte by byte from the root
\* and succeeds if every byte has a node and the last node ends a key; the
\* result is (value, key.len()).
exact_match_search(cedar, key) ==
    IF \E k \in 1..Len(key) : Take(key, k) \notin cedar.nodes
    THEN [ some |-> FALSE ]
    ELSE IF key \notin DOMAIN cedar.value
         THEN [ some |-> FALSE ]
         ELSE [ some |-> TRUE, r |-> << cedar.value[key], Len(key) >> ]

\* A lookup that accepts the shortest key the domain starts with.
search_domain_commonPrefix(cedar, domain) ==
    LET hits == { k \in 0..Len(domain) :
                    exact_match_search(cedar, Take(domain, k)).some }
    IN IF hits = {}
       THEN [ some |-> FALSE ]
       ELSE LET k == CHOOSE h \in hits : \A g \in hits : h <= g
                r == exact_match_search(cedar, Take(domain, k)).r
            IN [ some |-> TRUE, index |-> r[1], matched_len |-> r[2] ]

\* DomainRule::search_domain(domain)
search_domain(cedar, domain) ==
    LET found == exact_match_search(cedar, domain)
    IN IF found.some
       THEN [ some |-> TRUE, index |-> found.r[1], matched_len |-> found.r[2] ]
       ELSE [ some |-> FALSE ]

RuleInit ==
    /\ ServerInit
    /\ request = << >> /\ HandlerIdle
    /\ prefix_dict \in Dictionaries /\ RuleIdle

\* DomainRule::new(prefix_dict): the pairs (s, k as i32) of the enumerated
\* dictionary, positions counted from 0, built into the trie.
DomainRule_new ==
    /\ prefix_rule.state = "unbuilt"
    /\ LET key_values == [ k \in 1..Len(prefix_dict) |->
                             [ s |-> prefix_dict[k], k |-> k - 1 ] ]
           built == build(CedarNew, key_values)
       IN prefix_rule' = IF built.ok
                         THEN [ state |-> "built", cedar |-> built.cedar ]
                         ELSE [ state |-> "panicked" ]
    /\ UNCHANGED << server_vars, socket_closed, recv_errors, request, response,
                    prefix_dict, searched >>

\* rule.search_domain(domain) on the rule that was built
SearchDomain(domain) ==
    /\ prefix_rule.state = "built"
    /\ searched' = [ state |-> "done", domain |-> domain,
                     result |-> search_domain(prefix_rule.cedar, domain) ]
    /\ UNCHANGED << server_vars, socket_closed, recv_errors, request, response,
                    prefix_dict, prefix_rule >>

RuleNext ==
    \/ DomainRule_new
    \/ \E domain \in Domains : SearchDomain(domain)

RuleSpec == RuleInit /\ [][RuleNext]_vars

\* The positions (counted from 0) of a string in the dictionary.
PositionsOf(d) == { k - 1 : k \in { j \in 1..Len(prefix_dict) : prefix_dict[j] = d } }

\* ---- derived state ----------------------------------------------------------

InFlight == { u.id : u \in units }

\* The datagrams for which a permit was acquired and a unit spawned.
Admitted == InFlight \cup DOMAIN finished

\* shutdown() has been called (the token is never reset).
ShutdownInvoked == shutdown \/ cancelling > 0

LoopIds == 1..Len(loops)

\* The server is stopped: no call is under way, is_running() is false, the
\* token is cancelled and every receive loop has exited.
Stopped ==
    /\ ~running /\ shutdown /\ spawning = 0 /\ cancelling = 0
    /\ loops # << >>
    /\ \A l \in LoopIds : loops[l].pc = "exited"

\* The payload the receive loop hands to the unit of datagram i.
PayloadOf(i) == Take(arrived[i].bytes, udp_buf_size)

\* The receive loops that hold a datagram copied out of the buffer and wait
\* for a permit.
Pending == { l \in LoopIds : loops[l].pc = "acquire" }

\* The receive loops that have not left their loop.
Alive == { l \in LoopIds : loops[l].pc # "exited" }

\* ---- claims -----------------------------------------------------------------

\* C1: the number of admitted units that have not finished never exceeds
\* max_concurrency, whatever the arrivals and the interleaving.
C1_BoundedInFlight == Cardinality(units) <= max_concurrency

\* C1 witness: the gate is full while a received datagram waits for a permit.
C1_Witness ==
    /\ Cardinality(units) = max_concurrency
    /\ \E l \in LoopIds : loops[l].pc = "acquire"

\* C2: available permits + units in flight = max_concurrency in every state,
\* so every exit path gives its permit back exactly once.
C2_PermitsConserved == semaphore + Cardinality(units) = max_concurrency

\* C2 witness: units have left by failure paths and every permit is back.
C2_Witness ==
    /\ units = {}
    /\ semaphore = max_concurrency
    /\ \E i \in DOMAIN finished : finished[i] \in { "decode_failed", "no_response" }
    /\ \E i \in DOMAIN finished : finished[i] \in { "encode_failed", "send_failed" }

\* C3 (as claimed): once the shutdown token is cancelled no further datagram
\* is admitted: no permit is acquired and no unit is spawned.
C3_NoAdmissionAfterShutdown == [][ shutdown => Admitted' = Admitted ]_vars

\* C4: shutdown drains, it does not cancel: a unit leaves the set of units in
\* flight only by finishing on one of its own exit paths, and once shutdown()
\* has been invoked the units in flight eventually have all finished.
C4_DrainNotCancel ==
    /\ [][ \A u \in units : u.id \notin InFlight' => u.id \in DOMAIN finished' ]_vars
    /\ <>[](ShutdownInvoked => units = {})

\* C4 witness: after the token is cancelled and the loops have exited, a unit
\* is still running, at its send.
C4_Witness ==
    /\ Stopped
    /\ \E u \in units : u.pc = "send"

\* C5 (as claimed): whenever the server reports Stopped no admitted unit is
\* still in flight.
C5_StoppedImpliesDrained == Stopped => units = {}

\* C6: start() on a server whose running flag is set changes nothing but the
\* count of calls: no loop is spawned or scheduled, socket, semaphore and
\* running flag stay as they are.
C6_StartIdempotent ==
    [][ (running /\ StartSwap) =>
          UNCHANGED << running, shutdown, semaphore, socket, spawning, cancelling,
                       loops, units, finished, sent, arrived >> ]_vars

\* C6 witness: two start() calls and no shutdown(), one receive loop.
C6_Witness ==
    /\ calls = 2 /\ ~ShutdownInvoked
    /\ running /\ spawning = 0 /\ Len(loops) = 1

\* C7 (as claimed): once shutdown() has cancelled the token the server never
\* reports Running again.
C7_NeverRunningAfterShutdown == shutdown => ~running

\* C8: once shutdown() has been invoked every receive loop eventually exits,
\* also one that waits for a permit: from some point on every loop ever
\* spawned has exited and none is about to be spawned.
C8_LoopExits ==
    <>[](ShutdownInvoked =>
            spawning = 0 /\ \A l \in LoopIds : loops[l].pc = "exited")

\* C8 witness: a loop has exited after admitting a datagram, while another
\* datagram is still unread in the socket.
C8_Witness ==
    /\ \E l \in LoopIds : loops[l].pc = "exited"
    /\ Admitted # {}
    /\ socket # << >>

\* C9 (as claimed): a request that decodes and has no question gets a response
\* from the static responder: same id, format error, no answers.
C9_NoQuestionAnswered ==
    \A i \in Admitted :
        LET req == from_vec(PayloadOf(i))
        IN (req.ok /\ req.queries = << >> /\ i \in DOMAIN finished) =>
              LET resp == handle(req)
              IN /\ resp.some /\ resp.id = req.id /\ resp.rcode = "FormErr"
                 /\ resp.answers = << >>
                 /\ finished[i] # "no_response"

\* C10: a datagram whose payload does not decode, or for which the handler
\* returns no response, is never answered: its unit never reaches the send
\* and leaves by the drop path; a datagram is sent back only for a payload
\* that decoded and got a response.
C10_SendOnlyIfHandled ==
    \A i \in 1..Len(arrived) :
        LET req == from_vec(PayloadOf(i))
            dropped == IF req.ok THEN ~handle(req).some ELSE TRUE
        IN /\ dropped =>
                /\ sent[i] = << >>
                /\ \A u \in units : u.id = i => u.pc = "spawned"
                /\ i \in DOMAIN finished =>
                       finished[i] = (IF req.ok THEN "no_response" ELSE "decode_failed")
           /\ sent[i] # << >> => (req.ok /\ handle(req).some)

\* C10 witness: both drop paths were taken, nothing was sent, all permits are
\* back.
C10_Witness ==
    /\ units = {}
    /\ semaphore = max_concurrency
    /\ \E i \in DOMAIN finished : finished[i] = "decode_failed" /\ sent[i] = << >>
    /\ \E i \in DOMAIN finished : finished[i] = "no_response" /\ sent[i] = << >>

C12_PersistentFailureFatal ==
    <>[](socket_closed => \A l \in LoopIds : loops[l].pc = "exited")

\* C13 (as claimed): for a request with at least one question the static
\* responder returns a response with the request's id and success status,
\* with exactly one A answer (fixed address, TTL, the first question's name)
\* when the first question's type is A and no answer otherwise.
C13_StaticAnswer ==
    LET req == from_vec(request)
    IN (response.state = "done" /\ req.ok /\ Len(req.queries) >= 1) =>
          LET q == req.queries[1]
              resp == response.out
          IN /\ resp.some
             /\ resp.id = req.id
             /\ resp.rcode = "NoError"
             /\ resp.answers = IF q.qtype = TypeA
                               THEN << [ name |-> q.name, rtype |-> TypeA,
                                         ttl |-> AnswerTtl, addr |-> LocalHost ] >>
                               ELSE << >>

\* C14 (as claimed): the response to a request with n >= 1 questions echoes
\* all n questions, in order.
C14_EchoesAllQuestions ==
    LET req == from_vec(request)
    IN (response.state = "done" /\ req.ok /\ Len(req.queries) >= 1
            /\ response.out.some) =>
          response.out.queries = req.queries

\* C15 (as claimed): for every dictionary an index is built, and for every
\* domain d at position i of the dictionary search_domain(d) returns Some
\* with index = i and matched_len = the byte length of d.
C15_FindsEveryPosition ==
    /\ prefix_rule.state # "panicked"
    /\ searched.state = "done" =>
          \A i \in PositionsOf(searched.domain) :
              searched.result = [ some |-> TRUE, index |-> i,
                                  matched_len |-> Len(searched.domain) ]

\* C16: search_domain(q) is None for every q that is not a string of the
\* dictionary: a proper prefix of a key, a proper extension of a key, and
\* any q, the empty string included, when the dictionary is empty.
C16_NoneUnlessKey ==
    (searched.state = "done" /\ PositionsOf(searched.domain) = {}) =>
        ~searched.result.some

\* C16 witness: a proper prefix of a key that is itself no key was looked up.
C16_Witness ==
    /\ searched.state = "done"
    /\ PositionsOf(searched.domain) = {}
    /\ \E k \in 1..Len(prefix_dict) :
          /\ Len(searched.domain) < Len(prefix_dict[k])
          /\ Len(searched.domain) > 0
          /\ Take(prefix_dict[k], Len(searched.domain)) = searched.domain
    /\ ~searched.result.some

\* C17 (as claimed): at any instant at most one received datagram is pending
\* admission, and the payloads held (pending and in flight) never exceed
\* max_concurrency + 1.
C17_OnePending ==
    /\ Cardinality(Pending) <= 1
    /\ Cardinality(Pending) + Cardinality(units) <= max_concurrency + 1

\* C18: every unit decodes exactly the bytes received for its own datagram,
\* whatever is received into the buffer afterwards: the payload a pending
\* loop or a unit holds is its datagram's, and the unit's encoded response and
\* its outcome are those of that payload.
C18_OwnPayload ==
    /\ \A l \in Pending : loops[l].payload = PayloadOf(loops[l].id)
    /\ \A u \in units :
          /\ u.payload = PayloadOf(u.id)
          /\ u.pc = "send" =>
                LET req == from_vec(PayloadOf(u.id))
                IN req.ok /\ handle(req).some /\ u.out = to_vec(handle(req))
    /\ \A i \in DOMAIN finished :
          LET req == from_vec(PayloadOf(i))
          IN /\ finished[i] = "decode_failed" <=> ~req.ok
             /\ finished[i] = "no_response" <=> (req.ok /\ ~handle(req).some)
             /\ \A k \in 1..Len(sent[i]) : sent[i][k].bytes = to_vec(handle(req))

\* C18 witness: a unit has yet to decode its payload while a later datagram
\* has been received into the buffer, which now differs from that payload.
C18_Witness ==
    \E u \in units : \E l \in Pending :
        /\ u.pc = "spawned"
        /\ loops[l].id > u.id
        /\ Take(loops[l].buf, Len(u.payload)) # u.payload

\* C19: for every datagram at most one response is sent, to the peer the
\* datagram came from; a failed encode or send leaves no response.
C19_OneResponseToSender ==
    \A i \in Ids :
        /\ Len(sent[i]) <= 1
        /\ sent[i] # << >> => i \in DOMAIN finished /\ finished[i] = "sent"
        /\ \A k \in 1..Len(sent[i]) : sent[i][k].peer = arrived[i].peer

\* C19 witness: a response was sent for a datagram after a datagram of
\* another peer had arrived.
C19_Witness ==
    \E i \in DOMAIN arrived : \E j \in DOMAIN arrived :
        /\ i < j
        /\ arrived[i].peer # arrived[j].peer
        /\ j \in InFlight \/ \E l \in Pending : loops[l].id = j
        /\ sent[i] # << >>

\* C20 (as claimed): at most one receive loop is alive at any time, for any
\* sequence and interleaving of start() and shutdown() calls.
C20_OneLoopAlive == Cardinality(Alive) <= 1

====
